---- MODULE Spec2Model ----
(***************************************************************************)
(* Model of uspech.zeromq.router.Router: an identity-addressed ZeroMQ      *)
(* ROUTER socket wrapper that JSON-encodes and timestamps outbound         *)
(* messages, and whose asynchronous iterator yields (message, sender)      *)
(* pairs of the inbound envelopes that are at most 15 seconds old.         *)
(*                                                                         *)
(* Byte strings and text strings are sequences of numbers (byte values,    *)
(* code points).  Python values are records tagged with their type.        *)
(* The clock is counted in ticks of 1/TicksPerSec second, so that the      *)
(* float returned by time() and its truncation int(time()) differ.         *)
(***************************************************************************)
EXTENDS Integers, Sequences, FiniteSets, TLC

(***************************************************************************)
(* Bounds of the model.                                                    *)
(***************************************************************************)
\* Envelopes the transport delivers to sockets in one run: of the
\* consumption loop, of the demo, of the calls of the API, of the
\* consumption loop left to itself, and of two Routers in use.
MaxEnvelopes == 3
MaxDemoEnvelopes == 2
MaxCallEnvelopes == 1
MaxLiveEnvelopes == 2
MaxUseEnvelopes == 3
MaxIdleEnvelopes == 2
\* Items in the rules of an access model.
MaxItems == 3
\* Pages: the largest page size, page number requested and number of rows.
MaxSize == 3
MaxPage == 4
MaxRows == 6
\* Calls of log_to_console in one run.
MaxCalls == 3
\* Advances of the clock in one run: of the consumption loop, of the
\* demo, and of two Routers in use.
MaxTicks == 2
MaxDemoTicks == 1
MaxUseTicks == 1
\* Resolution of the modelled clock: time() is a float, int(time()) whole
\* seconds.
TicksPerSec == 2
\* The clock when the process starts, in ticks (20.0 s).
StartTicks == 40

(***************************************************************************)
(* Program constants.                                                      *)
(***************************************************************************)
\* The age limit of __anext__: `int(t) + 15 < time()`.
StaleAfter == 15

(***************************************************************************)
(* Python values.                                                          *)
(***************************************************************************)
None == [type |-> "NoneType", val |-> <<>>]
PyStr(s) == [type |-> "str", val |-> s]
PyBytes(b) == [type |-> "bytes", val |-> b]
PyList(items) == [type |-> "list", val |-> items]
PyTuple(items) == [type |-> "tuple", val |-> items]
PySet(items) == [type |-> "set", val |-> items]

\* The result of a call that may raise.
Ok(v) == [ok |-> TRUE, val |-> v, exc |-> "none"]
Raise(e) == [ok |-> FALSE, val |-> <<>>, exc |-> e]

(***************************************************************************)
(* str.encode('utf8') and bytes.decode('utf-8') on code points below       *)
(* U+0800: one byte below U+0080, two bytes from there on.                 *)
(***************************************************************************)
RECURSIVE Utf8Encode(_)
Utf8Encode(s) ==
    IF s = <<>> THEN <<>>
    ELSE LET c == Head(s)
         IN  (IF c < 128 THEN <<c>>
              ELSE <<192 + (c \div 64), 128 + (c % 64)>>)
             \o Utf8Encode(Tail(s))

RECURSIVE Utf8Decode(_)
Utf8Decode(b) ==
    IF b = <<>> THEN Ok(<<>>)
    ELSE LET c == Head(b)
         IN  IF c < 128
             THEN LET rest == Utf8Decode(Tail(b))
                  IN  IF rest.ok THEN Ok(<<c>> \o rest.val) ELSE rest
             ELSE IF c >= 194 /\ c < 224 /\ Len(b) >= 2
                     /\ b[2] >= 128 /\ b[2] < 192
             THEN LET rest == Utf8Decode(Tail(Tail(b)))
                  IN  IF rest.ok
                      THEN Ok(<<(c - 192) * 64 + (b[2] - 128)>> \o rest.val)
                      ELSE rest
             ELSE Raise("UnicodeDecodeError")

(***************************************************************************)
(* str(n) for an integer, and int(b) for a byte string: an optional sign   *)
(* followed by at least one decimal digit.                                 *)
(***************************************************************************)
RECURSIVE NatToStr(_)
NatToStr(n) ==
    IF n < 10 THEN <<48 + n>>
    ELSE NatToStr(n \div 10) \o <<48 + (n % 10)>>

IntToStr(n) == IF n < 0 THEN <<45>> \o NatToStr(-n) ELSE NatToStr(n)

IsDigits(b) == b # <<>> /\ \A i \in 1..Len(b) : b[i] >= 48 /\ b[i] <= 57

RECURSIVE DigitsToNat(_)
DigitsToNat(b) ==
    IF b = <<>> THEN 0
    ELSE DigitsToNat(SubSeq(b, 1, Len(b) - 1)) * 10 + (b[Len(b)] - 48)

ParseInt(b) ==
    IF b # <<>> /\ b[1] = 45 /\ IsDigits(Tail(b)) THEN Ok(-DigitsToNat(Tail(b)))
    ELSE IF b # <<>> /\ b[1] = 43 /\ IsDigits(Tail(b)) THEN Ok(DigitsToNat(Tail(b)))
    ELSE IF IsDigits(b) THEN Ok(DigitsToNat(b))
    ELSE Raise("ValueError")

(***************************************************************************)
(* json.dumps and json.loads on integers and flat arrays of integers.      *)
(* dumps renders a list and a tuple alike as an array with ", " between    *)
(* the items and raises TypeError on any other container; loads reads an   *)
(* array back as a list.                                                   *)
(***************************************************************************)
RECURSIVE JoinItems(_)
JoinItems(items) ==
    IF items = <<>> THEN <<>>
    ELSE IF Len(items) = 1 THEN IntToStr(items[1])
    ELSE IntToStr(items[1]) \o <<44, 32>> \o JoinItems(Tail(items))

dumps(m) ==
    IF m.type \in {"list", "tuple"} THEN Ok(<<91>> \o JoinItems(m.val) \o <<93>>)
    ELSE Raise("TypeError")

\* Position of the first comma of s, or Len(s) + 1.
RECURSIVE CommaAt(_, _)
CommaAt(s, i) ==
    IF i > Len(s) \/ s[i] = 44 THEN i ELSE CommaAt(s, i + 1)

RECURSIVE StripSpaces(_)
StripSpaces(s) ==
    IF s # <<>> /\ s[1] = 32 THEN StripSpaces(Tail(s))
    ELSE IF s # <<>> /\ s[Len(s)] = 32 THEN StripSpaces(SubSeq(s, 1, Len(s) - 1))
    ELSE s

JsonNumber(s) ==
    IF IsDigits(s) /\ (Len(s) = 1 \/ s[1] # 48) THEN Ok(DigitsToNat(s))
    ELSE IF s # <<>> /\ s[1] = 45 /\ IsDigits(Tail(s))
            /\ (Len(s) = 2 \/ s[2] # 48) THEN Ok(-DigitsToNat(Tail(s)))
    ELSE Raise("JSONDecodeError")

RECURSIVE JsonItems(_)
JsonItems(s) ==
    LET k == CommaAt(s, 1)
        first == JsonNumber(StripSpaces(SubSeq(s, 1, k - 1)))
    IN  IF ~first.ok THEN first
        ELSE IF k > Len(s) THEN Ok(<<first.val>>)
        ELSE LET rest == JsonItems(SubSeq(s, k + 1, Len(s)))
             IN  IF rest.ok THEN Ok(<<first.val>> \o rest.val) ELSE rest

\* loads of a text without spaces around it.
LoadsArray(t) ==
    IF Len(t) >= 2 /\ t[1] = 91 /\ t[Len(t)] = 93
    THEN LET body == StripSpaces(SubSeq(t, 2, Len(t) - 1))
         IN  IF body = <<>> THEN Ok(PyList(<<>>))
             ELSE LET items == JsonItems(body)
                  IN  IF items.ok THEN Ok(PyList(items.val)) ELSE items
    ELSE Raise("JSONDecodeError")

\* (t ranges over the one stripped text.)
loads(s) == CHOOSE result \in {LoadsArray(t) : t \in {StripSpaces(s)}} : TRUE

(***************************************************************************)
(* The process: Router objects, their sockets and their consumer tasks.    *)
(***************************************************************************)
\* The names the program binds its Router objects to.
Routers == {"server", "client"}

\* 'sé', the identity of a well-known participant, and 'x', a foreign peer.
WellKnown == <<115, 233>>
Foreign == <<120>>

\* Arguments the program constructs Routers and sends messages with.
IdentityArgs == {None, PyStr(WellKnown), PyStr(<<>>)}
RecipientArgs ==
    {None, PyStr(WellKnown), PyBytes(Utf8Encode(WellKnown)), PyStr(Foreign)}
Messages == {PyList(<<1, 2>>), PyTuple(<<1, 2>>), PySet(<<1>>)}
Tcp == "tcp://127.0.0.1:4321"
Addresses == {Tcp, "malformed"}

VARIABLES
    now,                \* time(): the clock, in ticks
    nticks,             \* advances of the clock so far
    uuids,              \* calls of uuid4() so far
    constructed,        \* constructed[r]: Router(...) returned an object
    identity_arg,       \* identity_arg[r]: the identity r was constructed with
    identity,           \* identity[r]: zmq.IDENTITY of r's socket
    default_recipient,  \* default_recipient[r]: r.default_recipient
    bound,              \* bound[r]: the addresses r's socket is bound to
    connected,          \* connected[r]: the addresses it is connected to
    inbox,              \* inbox[r]: envelopes queued in r's socket
    pc,                 \* pc[r]: where r's consumer task is
    iters,              \* iters[r]: iterations begun over r (0, 1, more)
    fut,                \* fut[r]: result held by the receive future
    log,                \* log[r]: id and outcome of each envelope handed over
    seen,               \* seen[r]: the last of them, in full
    delivered,          \* envelopes the transport has delivered so far
    last,               \* the call of the Router API the last step made, if any
    items,              \* the rules an AccessModel is constructed with
    role,               \* the role its privileges are asked for
    patterns,           \* patterns[m]: self.patterns of access model m
    privs,              \* privs[m]: what m.privileges(role) returned
    request_page,       \* request.args.get('page'): None when absent
    query_count,        \* rows of the query a Page is made of
    page,               \* the Page constructed, or the exception raised
    handler,            \* log.handler, the module-level variable
    root_handlers,      \* logging.root.handlers
    root_level,         \* logging.root.level
    created,            \* StreamHandler objects created so far
    log_call            \* the last call of log_to_console

\* The state of the access models, which no step of a Router touches, and
\* the state of the Routers.
rbac == <<items, role, patterns, privs>>

\* The state of pagination and of logging.
paging == <<request_page, query_count, page>>

logging == <<handler, root_handlers, root_level, created, log_call>>

routers == <<now, nticks, uuids, constructed, identity_arg, identity,
             default_recipient, bound, connected, inbox, pc, iters, fut, log,
             seen, delivered, last>>

vars == <<routers, rbac, paging, logging>>

NoCall ==
    [op |-> "none", router |-> "none", args |-> <<>>, exc |-> "none",
     sent |-> <<>>, ret |-> "none", passed |-> <<>>, dropped |-> "none"]

\* A call of the API: the exception it raised, the frame lists it gave to
\* send_multipart, what it returned.  passed: the addresses it gave to
\* socket.connect or socket.bind; dropped: the exception of a future the
\* call left behind.
Call(op, r, a, exc, sent, ret) ==
    [op |-> op, router |-> r, args |-> a, exc |-> exc, sent |-> sent,
     ret |-> ret, passed |-> <<>>, dropped |-> "none"]

(***************************************************************************)
(* time(), and the clock moving on: by one tick, or by StaleAfter seconds. *)
(***************************************************************************)
time == now

IntTime == now \div TicksPerSec

TickSteps == {1, StaleAfter * TicksPerSec}

Tick(d) ==
    /\ now' = now + d
    /\ nticks' = nticks + 1
    /\ UNCHANGED <<rbac, paging, logging>>
    /\ UNCHANGED <<uuids, constructed, identity_arg, identity,
                   default_recipient, bound, connected, inbox, pc, iters, fut,
                   log, seen, delivered>>
    /\ last' = NoCall

(***************************************************************************)
(* Router.__init__                                                         *)
(***************************************************************************)
\* A token generated once and used by every call.
Uuid4HexOnce(n) == <<117, 48>>

\* uuid4().hex: a token no earlier call returned ('u0', 'u1', ...).
Uuid4Hex(n) == <<117>> \o NatToStr(n)

\* The identity __init__ hands to setsockopt_string, which encodes it.
IdentityOption(identityArg, n) ==
    IF identityArg # None THEN Utf8Encode(identityArg.val)
    ELSE Utf8Encode(Uuid4Hex(n))

\* The default recipient __init__ stores.
StoredDefault(defaultArg) ==
    IF defaultArg # None
    THEN IF defaultArg.type # "bytes" THEN PyBytes(Utf8Encode(defaultArg.val))
         ELSE defaultArg
    ELSE None

\* The socket takes an option value, or refuses it raising ZMQError.  An
\* identity of 1 to 255 bytes is always taken; what becomes of an empty one
\* is the transport's choice.
SetsockoptOutcomes(value) ==
    IF value = <<>> THEN {"ok", "ZMQError"} ELSE {"ok"}

Construct(r, identityArg, defaultArg) ==
    /\ ~constructed[r]
    /\ LET id == IdentityOption(identityArg, uuids)
       IN  \E outcome \in SetsockoptOutcomes(id) :
              /\ uuids' = IF identityArg = None THEN uuids + 1 ELSE uuids
              /\ IF outcome = "ok"
                 THEN /\ constructed' = [constructed EXCEPT ![r] = TRUE]
                      /\ identity_arg' = [identity_arg EXCEPT ![r] = identityArg]
                      /\ identity' = [identity EXCEPT ![r] = id]
                      /\ default_recipient' =
                            [default_recipient EXCEPT ![r] = StoredDefault(defaultArg)]
                      /\ last' = Call("__init__", r, <<identityArg, defaultArg>>,
                                      "none", <<>>, "Router")
                 ELSE /\ last' = Call("__init__", r, <<identityArg, defaultArg>>,
                                      outcome, <<>>, "none")
                      /\ UNCHANGED <<constructed, identity_arg, identity, default_recipient>>
    /\ UNCHANGED <<rbac, paging, logging>>
    /\ UNCHANGED <<now, nticks, bound, connected, inbox, pc, iters, fut, log, seen,
                   delivered>>

(***************************************************************************)
(* Router.connect and Router.bind                                          *)
(***************************************************************************)
\* A method that returns nothing.
ReturnNone(r) == "None"

\* `return self`: the Router the method was called on.
ReturnSelf(r) == r

Connect(r, address) ==
    /\ constructed[r]
    /\ IF address = "malformed"
       THEN /\ last' = [Call("connect", r, <<address>>, "ZMQError", <<>>, "none")
                          EXCEPT !.passed = <<address>>]
            /\ UNCHANGED connected
       ELSE /\ connected' = [connected EXCEPT ![r] = @ \cup {address}]
            /\ last' = [Call("connect", r, <<address>>, "none", <<>>, ReturnSelf(r))
                          EXCEPT !.passed = <<address>>]
    /\ UNCHANGED <<rbac, paging, logging>>
    /\ UNCHANGED <<now, nticks, uuids, constructed, identity_arg, identity,
                   default_recipient, bound, inbox, pc, iters, fut, log, seen,
                   delivered>>

Bind(r, address) ==
    /\ constructed[r]
    /\ IF address = "malformed" \/ \E q \in Routers : address \in bound[q]
       THEN /\ last' = [Call("bind", r, <<address>>, "ZMQError", <<>>, "none")
                          EXCEPT !.passed = <<address>>]
            /\ UNCHANGED bound
       ELSE /\ bound' = [bound EXCEPT ![r] = @ \cup {address}]
            /\ last' = [Call("bind", r, <<address>>, "none", <<>>, ReturnSelf(r))
                          EXCEPT !.passed = <<address>>]
    /\ UNCHANGED <<rbac, paging, logging>>
    /\ UNCHANGED <<now, nticks, uuids, constructed, identity_arg, identity,
                   default_recipient, connected, inbox, pc, iters, fut, log, seen,
                   delivered>>

\* The sockets of r and q talk to each other.
Linked(r, q) ==
    /\ r # q
    /\ constructed[r] /\ constructed[q]
    /\ \/ bound[r] \cap connected[q] # {}
       \/ bound[q] \cap connected[r] # {}

(***************************************************************************)
(* Router.send                                                             *)
(***************************************************************************)
\* The resolution without the test for a missing default: the message
\* would go out with an empty address frame.
ResolveRecipientUnchecked(r, recipient) ==
    IF recipient = None
    THEN Ok(default_recipient[r].val)
    ELSE IF recipient.type # "bytes" THEN Ok(Utf8Encode(recipient.val))
         ELSE Ok(recipient.val)

\* The resolution with the default first: an explicit recipient would be
\* used only by a Router that has no default.
ResolveRecipientDefaultFirst(r, recipient) ==
    IF default_recipient[r] # None THEN Ok(default_recipient[r].val)
    ELSE IF recipient = None THEN Raise("TypeError: no recipient specified")
    ELSE IF recipient.type # "bytes" THEN Ok(Utf8Encode(recipient.val))
         ELSE Ok(recipient.val)

\* The recipient frame send resolves, or the TypeError it raises.
ResolveRecipient(r, recipient) ==
    IF recipient = None
    THEN IF default_recipient[r] = None
         THEN Raise("TypeError: no recipient specified")
         ELSE Ok(default_recipient[r].val)
    ELSE IF recipient.type # "bytes" THEN Ok(Utf8Encode(recipient.val))
         ELSE Ok(recipient.val)

\* The encoding with a fallback for what dumps refuses (its text, here
\* its items as an array): such a message would go out.
EncodeMessageLenient(message) ==
    Ok(Utf8Encode(<<91>> \o JoinItems(message.val) \o <<93>>))

\* The payload frame: dumps(message).encode('utf8').
EncodeMessage(message) ==
    LET json == dumps(message)
    IN  IF json.ok THEN Ok(Utf8Encode(json.val))
        ELSE Raise("TypeError: not JSON serializable")

\* The timestamp frame: str(int(time())).encode('utf8').
Timestamp == Utf8Encode(IntToStr(IntTime))

\* The frames with payload and timestamp in each other's place.
SendFramesSwapped(recipient, json) == <<recipient, Timestamp, json>>

\* The list send hands to socket.send_multipart.
SendFrames(recipient, json) == <<recipient, json, Timestamp>>

\* The peers a ROUTER socket routes an outbound message to: the linked peer
\* whose identity is the first frame.  Without one the message is dropped.
RouteOf(r, frames) ==
    {q \in Routers : Linked(r, q) /\ identity[q] = frames[1]}

\* The envelope with the address frame left in place: the receiver would
\* read its own identity as the sender.
EnvelopeAddressKept(id, sender, frames, origin) ==
    [id |-> id, frames |-> frames, origin |-> origin]

\* What the receiving socket queues: the first frame replaced by the
\* identity of the sending socket.  origin is the Router that sent it and
\* the message send was called with (none for a foreign peer's).
Envelope(id, sender, frames, origin) ==
    [id |-> id, frames |-> <<sender>> \o Tail(frames), origin |-> origin]

\* What send_multipart of the asyncio socket may do with a message: queue
\* it, or fail.  Either way it returns a future, and a failure is the
\* exception of that future.
SendOutcomes == {"ok", "ZMQError"}

\* A send that remembers its recipient: an explicit one would become the
\* default of the sends after it.
DefaultAfterSendSticky(r, recipient) ==
    IF recipient # None THEN StoredDefault(recipient) ELSE default_recipient[r]

\* self.default_recipient after send: send reads it and assigns nothing.
DefaultAfterSend(r, recipient) == default_recipient[r]

\* A send that waits for the consumer's pending request to finish.
SendReadyWhenIdle(r) == pc[r] \notin {"waiting", "resuming"}

\* send is a plain function without an await: it runs to its end whenever
\* it is called, wherever the consumer task is.
SendReady(r) == TRUE

\* send does not await the future of send_multipart and does not return it
\* (zeromq/__init__.py: the sockets are those of zmq.asyncio.Context).
Send(r, message, recipient) ==
    /\ constructed[r]
    /\ SendReady(r)
    /\ \E to \in {ResolveRecipient(r, recipient)}, json \in {EncodeMessage(message)} :
          LET a == <<message, recipient>>
          IN  IF ~to.ok
              THEN /\ last' = Call("send", r, a, to.exc, <<>>, "none")
                   /\ UNCHANGED <<inbox, delivered>>
              ELSE IF ~json.ok
              THEN /\ last' = Call("send", r, a, json.exc, <<>>, "none")
                   /\ UNCHANGED <<inbox, delivered>>
              ELSE LET frames == SendFrames(to.val, json.val)
                   IN  \E outcome \in SendOutcomes :
                          IF outcome # "ok"
                          THEN /\ last' = [Call("send", r, a, "none", <<frames>>, "None")
                                             EXCEPT !.dropped = outcome]
                               /\ UNCHANGED <<inbox, delivered>>
                          ELSE /\ last' = Call("send", r, a, "none", <<frames>>, "None")
                               /\ IF RouteOf(r, frames) = {}
                                  THEN UNCHANGED <<inbox, delivered>>
                                  ELSE \E q \in RouteOf(r, frames) :
                                          /\ delivered' = delivered + 1
                                          /\ inbox' = [inbox EXCEPT ![q] =
                                                Append(@, Envelope(delivered + 1,
                                                   identity[r], frames,
                                                   [router |-> r, message |-> message]))]
    /\ default_recipient' =
          [default_recipient EXCEPT ![r] = DefaultAfterSend(r, recipient)]
    /\ UNCHANGED <<rbac, paging, logging>>
    /\ UNCHANGED <<now, nticks, uuids, constructed, identity_arg, identity,
                   bound, connected, pc, iters, fut, log, seen>>

(***************************************************************************)
(* A peer that is no Router of this process sends r three frames.          *)
(***************************************************************************)
Junk == <<110, 111, 119>>

\* int(time()) when the process starts.
StartTime == StartTicks \div TicksPerSec

ForeignFrames ==
    {<<Foreign, <<91, 49, 93>>, IntToStr(StartTime)>>,
     <<Foreign, <<91, 49, 93>>, IntToStr(StartTime + 1)>>,
     <<Foreign, <<91, 49, 93>>, Junk>>,
     <<Foreign, <<123>>, IntToStr(StartTime)>>}

Inject(r, frames) ==
    /\ constructed[r]
    /\ bound[r] \cup connected[r] # {}
    /\ delivered' = delivered + 1
    /\ inbox' = [inbox EXCEPT ![r] =
          Append(@, [id |-> delivered + 1, frames |-> frames,
                     origin |-> [router |-> "none", message |-> None]])]
    /\ UNCHANGED <<rbac, paging, logging>>
    /\ UNCHANGED <<now, nticks, uuids, constructed, identity_arg, identity,
                   default_recipient, bound, connected, pc, iters, fut, log, seen>>
    /\ last' = NoCall

(***************************************************************************)
(* The consumer task of r: `async for message, sender in r`.               *)
(*   "none"     no iteration is under way                                  *)
(*   "body"     in the loop body, between two requests                     *)
(*   "waiting"  in __anext__, the receive future pending                   *)
(*   "resuming" in __anext__, the future done, the task not yet resumed    *)
(***************************************************************************)
\* An iteration that begins by emptying the socket's queue.
AiterFlushing(r) ==
    /\ constructed[r]
    /\ pc[r] = "none"
    /\ pc' = [pc EXCEPT ![r] = "body"]
    /\ iters' = [iters EXCEPT ![r] = IF @ = 0 THEN 1 ELSE 2]
    /\ inbox' = [inbox EXCEPT ![r] = <<>>]
    /\ UNCHANGED <<rbac, paging, logging>>
    /\ UNCHANGED <<now, nticks, uuids, constructed, identity_arg, identity,
                   default_recipient, bound, connected, fut, log, seen, delivered>>
    /\ last' = NoCall

Aiter(r) ==
    /\ constructed[r]
    /\ pc[r] = "none"
    /\ pc' = [pc EXCEPT ![r] = "body"]
    /\ iters' = [iters EXCEPT ![r] = IF @ = 0 THEN 1 ELSE 2]
    /\ UNCHANGED <<rbac, paging, logging>>
    /\ UNCHANGED <<now, nticks, uuids, constructed, identity_arg, identity,
                   default_recipient, bound, connected, inbox, fut, log, seen,
                   delivered>>
    /\ last' = NoCall

Anext(r) ==
    /\ pc[r] = "body"
    /\ pc' = [pc EXCEPT ![r] = "waiting"]
    /\ UNCHANGED <<rbac, paging, logging>>
    /\ UNCHANGED <<now, nticks, uuids, constructed, identity_arg, identity,
                   default_recipient, bound, connected, inbox, iters, fut, log, seen,
                   delivered>>
    /\ last' = NoCall

Break(r) ==
    /\ pc[r] = "body"
    /\ pc' = [pc EXCEPT ![r] = "none"]
    /\ UNCHANGED <<rbac, paging, logging>>
    /\ UNCHANGED <<now, nticks, uuids, constructed, identity_arg, identity,
                   default_recipient, bound, connected, inbox, iters, fut, log, seen,
                   delivered>>
    /\ last' = NoCall

\* The newest envelope queued instead of the oldest.
NewestEnvelope(queue) == queue[Len(queue)]

\* The envelope a pending receive completes with: the oldest one queued.
NextEnvelope(queue) == Head(queue)

\* The socket completes the pending receive.
SocketRecv(r) ==
    /\ pc[r] = "waiting"
    /\ inbox[r] # <<>>
    /\ fut' = [fut EXCEPT ![r] = <<NextEnvelope(inbox[r])>>]
    /\ inbox' = [inbox EXCEPT ![r] = Tail(@)]
    /\ pc' = [pc EXCEPT ![r] = "resuming"]
    /\ UNCHANGED <<rbac, paging, logging>>
    /\ UNCHANGED <<now, nticks, uuids, constructed, identity_arg, identity,
                   default_recipient, bound, connected, iters, log, seen, delivered>>
    /\ last' = NoCall

\* What became of an envelope handed to the consumer: the time it was
\* looked at, the outcome and what the consumer got.
Entry(env, outcome, exc, message) ==
    [id |-> env.id, frames |-> env.frames, origin |-> env.origin, at |-> time,
     outcome |-> outcome, exc |-> exc, message |-> message]

\* No envelope was handed over yet.
NoEntry ==
    [id |-> 0, frames |-> <<>>, origin |-> [router |-> "none", message |-> None],
     at |-> 0, outcome |-> "none", exc |-> "none", message |-> None]

\* The line of the log for an entry: which envelope, what became of it, and
\* in which iteration.
LogLine(e, iter) == [id |-> e.id, outcome |-> e.outcome, iter |-> iter]

\* The staleness test against the clock as it was when the process started:
\* an envelope would be judged by the age it had then.
IsStaleAtStart(t) == (t + StaleAfter) * TicksPerSec < StartTicks

\* The staleness test with <= for <: an envelope exactly StaleAfter seconds
\* old would be discarded.
IsStaleInclusive(t) == (t + StaleAfter) * TicksPerSec <= time

\* The staleness test of __anext__: int(t) + 15 < time().
IsStale(t) == (t + StaleAfter) * TicksPerSec < time

\* The pair with the sender first.
YieldPairSwapped(message, sender) == <<PyBytes(sender), message>>

\* The pair __anext__ returns.
YieldPair(message, sender) == <<message, PyBytes(sender)>>

\* The steps of __anext__ with the payload decoded before the timestamp is
\* looked at: a stale envelope with a payload that is no JSON would raise.
ExamineDecodingFirst(env) ==
    IF Len(env.frames) # 3 THEN Entry(env, "raise", "ValueError", None)
    ELSE LET sender == env.frames[1]
             text == Utf8Decode(env.frames[2])
             t == ParseInt(env.frames[3])
         IN  IF ~text.ok THEN Entry(env, "raise", text.exc, None)
             ELSE IF ~loads(text.val).ok
             THEN Entry(env, "raise", loads(text.val).exc, None)
             ELSE IF ~t.ok THEN Entry(env, "raise", t.exc, None)
             ELSE IF IsStale(t.val) THEN Entry(env, "discard", "none", None)
             ELSE Entry(env, "yield", "none",
                        YieldPair(loads(text.val).val, sender))

\* What __anext__ does with the frames it resumes with.
Examine(env) ==
    IF Len(env.frames) # 3 THEN Entry(env, "raise", "ValueError", None)
    ELSE LET sender == env.frames[1]
             data == env.frames[2]
             t == ParseInt(env.frames[3])
         IN  IF ~t.ok THEN Entry(env, "raise", t.exc, None)
             ELSE IF IsStale(t.val) THEN Entry(env, "discard", "none", None)
             ELSE LET text == Utf8Decode(data)
                  IN  IF ~text.ok THEN Entry(env, "raise", text.exc, None)
                      ELSE LET message == loads(text.val)
                           IN  IF ~message.ok
                               THEN Entry(env, "raise", message.exc, None)
                               ELSE Entry(env, "yield", "none",
                                          YieldPair(message.val, sender))

\* A loop that ends on a stale envelope instead of going on.
AfterExamineEnding(outcome) ==
    IF outcome = "yield" THEN "body" ELSE "none"

\* A loop that passes over what it cannot read as it passes over a stale
\* envelope: the request would go back to waiting.
AfterExamineDropping(outcome) ==
    IF outcome = "yield" THEN "body" ELSE "waiting"

\* Where the task is after the step: back at the await, in the loop body
\* with the pair, or out of the loop with the exception.
AfterExamine(outcome) ==
    IF outcome = "discard" THEN "waiting"
    ELSE IF outcome = "yield" THEN "body"
    ELSE "none"

\* A loop whose `sender` outlives the iteration: after a discard the pair
\* would carry the sender of the discarded envelope.
ResumeKeepingSender(r) ==
    /\ pc[r] = "resuming"
    /\ LET x == Examine(fut[r][1])
           e == IF x.outcome = "yield" /\ seen[r].outcome = "discard"
                THEN [x EXCEPT !.message = YieldPair(x.message[1], seen[r].frames[1])]
                ELSE x
       IN  /\ seen' = [seen EXCEPT ![r] = e]
           /\ log' = [log EXCEPT ![r] = Append(@, LogLine(e, iters[r]))]
           /\ pc' = [pc EXCEPT ![r] = AfterExamine(e.outcome)]
    /\ fut' = [fut EXCEPT ![r] = <<>>]
    /\ UNCHANGED <<rbac, paging, logging>>
    /\ UNCHANGED <<now, nticks, uuids, constructed, identity_arg, identity,
                   default_recipient, bound, connected, inbox, iters, delivered>>
    /\ last' = NoCall

Resume(r) ==
    /\ pc[r] = "resuming"
    /\ LET e == Examine(fut[r][1])
       IN  /\ seen' = [seen EXCEPT ![r] = e]
           /\ log' = [log EXCEPT ![r] = Append(@, LogLine(e, iters[r]))]
           /\ pc' = [pc EXCEPT ![r] = AfterExamine(e.outcome)]
    /\ fut' = [fut EXCEPT ![r] = <<>>]
    /\ UNCHANGED <<rbac, paging, logging>>
    /\ UNCHANGED <<now, nticks, uuids, constructed, identity_arg, identity,
                   default_recipient, bound, connected, inbox, iters, delivered>>
    /\ last' = NoCall

\* The consumer task is cancelled at the await: CancelledError is thrown
\* into the coroutine.  A pending future is cancelled and takes nothing from
\* the socket; the result of a done one is dropped.
Cancel(r) ==
    /\ pc[r] \in {"waiting", "resuming"}
    /\ pc' = [pc EXCEPT ![r] = "none"]
    /\ fut' = [fut EXCEPT ![r] = <<>>]
    /\ IF fut[r] = <<>>
       THEN UNCHANGED <<log, seen>>
       ELSE LET e == Entry(fut[r][1], "lost", "CancelledError", None)
            IN  /\ seen' = [seen EXCEPT ![r] = e]
                /\ log' = [log EXCEPT ![r] = Append(@, LogLine(e, iters[r]))]
    /\ UNCHANGED <<rbac, paging, logging>>
    /\ UNCHANGED <<now, nticks, uuids, constructed, identity_arg, identity,
                   default_recipient, bound, connected, inbox, iters, delivered>>
    /\ last' = NoCall

\* The sender of the pair r's consumer holds: whom it can reply to.
Senders(r) ==
    IF seen[r].outcome = "yield" THEN {seen[r].message[2]} ELSE {}

(***************************************************************************)
(* rbac.AccessModel.  Strings are sequences of code points.                *)
(***************************************************************************)
\* str.strip(): without the spaces at either end.
RECURSIVE StrStrip(_)
StrStrip(s) ==
    IF s # <<>> /\ s[1] = 32 THEN StrStrip(Tail(s))
    ELSE IF s # <<>> /\ s[Len(s)] = 32 THEN StrStrip(SubSeq(s, 1, Len(s) - 1))
    ELSE s

\* str.replace(old, new) for one character.
StrReplace(s, old, new) ==
    [i \in 1..Len(s) |-> IF s[i] = old THEN new ELSE s[i]]

\* The normalisation of __init__: strip, '\' to '/', ' ' to '+'.
Normalize(pat) == StrReplace(StrReplace(StrStrip(pat), 92, 47), 32, 43)

\* Where the class that opens a pattern ends: the first ']' after its first
\* member, 0 when there is none (the '[' is then an ordinary character).
ClassEnd(pat) ==
    LET ends == {i \in 3..Len(pat) : pat[i] = 93}
    IN  IF ends = {} THEN 0 ELSE CHOOSE i \in ends : \A j \in ends : i <= j

\* fnmatch(name, pat) on POSIX: '*' is any run of characters, '?' any one
\* character, '[...]' one of the characters listed (classes without '!'
\* and without ranges), anything else itself.
RECURSIVE fnmatch(_, _)
fnmatch(name, pat) ==
    IF pat = <<>> THEN name = <<>>
    ELSE IF pat[1] = 42
    THEN \/ fnmatch(name, Tail(pat))
         \/ name # <<>> /\ fnmatch(Tail(name), pat)
    ELSE IF pat[1] = 63
    THEN name # <<>> /\ fnmatch(Tail(name), Tail(pat))
    ELSE IF pat[1] = 91 /\ ClassEnd(pat) > 0
    THEN /\ name # <<>>
         /\ \E i \in 2..(ClassEnd(pat) - 1) : name[1] = pat[i]
         /\ fnmatch(Tail(name), SubSeq(pat, ClassEnd(pat) + 1, Len(pat)))
    ELSE name # <<>> /\ name[1] = pat[1] /\ fnmatch(Tail(name), Tail(pat))

\* '[+-]*', '+*' and '-*'.
SignedPattern == <<91, 43, 45, 93, 42>>
PlusPattern == <<43, 42>>
MinusPattern == <<45, 42>>

\* The (pat, priv) pairs __init__ appends for one item, or its ValueError.
RECURSIVE ItemPatterns(_, _)
ItemPatterns(priv, pats) ==
    IF pats = <<>> THEN Ok(<<>>)
    ELSE LET pat == Normalize(pats[1])
         IN  IF ~fnmatch(pat, SignedPattern) THEN Raise("ValueError")
             ELSE LET rest == ItemPatterns(priv, Tail(pats))
                  IN  IF rest.ok THEN Ok(<<<<pat, priv>>>> \o rest.val) ELSE rest

\* AccessModel.__init__: self.patterns, or the ValueError raised.
RECURSIVE AccessModelInit(_)
AccessModelInit(rules) ==
    IF rules = <<>> THEN Ok(<<>>)
    ELSE LET first == ItemPatterns(rules[1][1], rules[1][2])
         IN  IF ~first.ok THEN first
             ELSE LET rest == AccessModelInit(Tail(rules))
                  IN  IF rest.ok THEN Ok(first.val \o rest.val) ELSE rest

\* A '-' pattern that takes every privilege away.
DiscardAll(set, priv) == {}

\* set.add and set.discard.
Add(set, priv) == set \cup {priv}

Discard(set, priv) == set \ {priv}

\* AccessModel.privileges: the loop over self.patterns, from the set so far.
RECURSIVE PrivilegesFrom(_, _, _)
PrivilegesFrom(set, pairs, r) ==
    IF pairs = <<>> THEN set
    ELSE LET pat == pairs[1][1]
             priv == pairs[1][2]
         IN  IF fnmatch(pat, PlusPattern) /\ fnmatch(r, Tail(pat))
             THEN PrivilegesFrom(Add(set, priv), Tail(pairs), r)
             ELSE IF fnmatch(pat, MinusPattern) /\ fnmatch(r, Tail(pat))
             THEN PrivilegesFrom(Discard(set, priv), Tail(pairs), r)
             ELSE PrivilegesFrom(set, Tail(pairs), r)

privileges(pairs, r) == PrivilegesFrom({}, pairs, r)

\* The rules with every privilege specified once, where it is first
\* mentioned, with the patterns of all its items concatenated in order.
RECURSIVE PatsOf(_, _)
PatsOf(rules, priv) ==
    IF rules = <<>> THEN <<>>
    ELSE (IF rules[1][1] = priv THEN rules[1][2] ELSE <<>>)
            \o PatsOf(Tail(rules), priv)

RECURSIVE FirstMentions(_, _)
FirstMentions(rules, done) ==
    IF rules = <<>> THEN <<>>
    ELSE IF rules[1][1] \in done THEN FirstMentions(Tail(rules), done)
    ELSE <<rules[1][1]>> \o FirstMentions(Tail(rules), done \cup {rules[1][1]})

Merged(rules) ==
    LET mentioned == FirstMentions(rules, {})
    IN  [i \in 1..Len(mentioned) |-> <<mentioned[i], PatsOf(rules, mentioned[i])>>]

\* Two access models: one of the rules as given, one of the rules merged.
Models == {"split", "merged"}

RulesOf(m) == IF m = "split" THEN items ELSE Merged(items)

Unbuilt == [ok |-> FALSE, val |-> <<>>, exc |-> "unbuilt"]

NotAsked == [asked |-> FALSE, val |-> {}]

\* m = AccessModel(rules)
NewAccessModel(m) ==
    /\ patterns[m] = Unbuilt
    /\ patterns' = [patterns EXCEPT ![m] = AccessModelInit(RulesOf(m))]
    /\ UNCHANGED <<items, role, privs>>
    /\ UNCHANGED <<routers, paging, logging>>

\* m.privileges(role)
Privileges(m) ==
    /\ patterns[m].ok
    /\ ~privs[m].asked
    /\ privs' = [privs EXCEPT ![m] =
          [asked |-> TRUE, val |-> privileges(patterns[m].val, role)]]
    /\ UNCHANGED <<items, role, patterns>>
    /\ UNCHANGED <<routers, paging, logging>>

\* Inputs: privileges, lists of patterns ('+*', '-a', ' +a\b c ', and 'a',
\* which __init__ refuses), roles ('a', 'a/b+c').
Privs == {"user", "admin"}

PatLists ==
    {<<>>,
     << <<43, 42>> >>,
     << <<45, 97>> >>,
     << <<43, 42>>, <<45, 97>> >>,
     << <<32, 43, 97, 92, 98, 32, 99, 32>> >>,
     << <<97>> >>}

Roles == {<<97>>, <<97, 47, 98, 43, 99>>}

RuleItems == {<<priv, pats>> : priv \in Privs, pats \in PatLists}

RuleLists == UNION {[1..n -> RuleItems] : n \in 0..MaxItems}

NoAccessModels ==
    /\ items = <<>>
    /\ role = <<>>
    /\ patterns = [m \in Models |-> Unbuilt]
    /\ privs = [m \in Models |-> NotAsked]

(***************************************************************************)
(* site.pagination.Page                                                    *)
(***************************************************************************)
Max(a, b) == IF a >= b THEN a ELSE b

Min(a, b) == IF a <= b THEN a ELSE b

\* ceil(a / b) for a >= 0 and b > 0: the quotient of the float division is
\* exact for numbers of this size.
Ceil(a, b) == (a + b - 1) \div b

\* len(query.offset(offset).limit(size).all()) for a query of n rows.
Sliced(n, offset, size) == Max(0, Min(size, n - offset))

NoPage ==
    /\ request_page = None
    /\ query_count = 0
    /\ page = [exc |-> "unbuilt"]

PageRaised(e) == [exc |-> e]

\* Page.__init__(query, size) under the request at hand.
PageInit(size) ==
    IF ~(size > 0) THEN PageRaised("AssertionError")
    ELSE LET number == ParseInt(IF request_page = None THEN <<49>>
                                ELSE request_page.val)
         IN  IF ~number.ok THEN PageRaised("InvalidUsage: wrong type")
             ELSE IF number.val < 1 THEN PageRaised("InvalidUsage: < 1")
             ELSE LET offset == (number.val - 1) * size
                      count == Sliced(query_count, offset, size)
                      lastPage == Max(1, Ceil(query_count, size))
                  IN  [exc |-> "none",
                       size |-> size,
                       number |-> number.val,
                       items_total |-> query_count,
                       items_first |-> offset + 1,
                       items |-> count,
                       items_last |-> offset + count,
                       first |-> 1,
                       last |-> lastPage,
                       next |-> Min(number.val + 1, lastPage),
                       prev |-> Max(number.val - 1, 1)]

\* page = Page(query, size)
NewPage(size) ==
    /\ page = [exc |-> "unbuilt"]
    /\ page' = PageInit(size)
    /\ UNCHANGED <<request_page, query_count>>
    /\ UNCHANGED <<routers, rbac, logging>>

\* Inputs: the page argument absent, '0' to the largest page, '-1' and 'x';
\* sizes from 0, which the assertion refuses.
PageArgs ==
    {None, PyStr(<<45, 49>>), PyStr(<<120>>)}
        \cup {PyStr(NatToStr(n)) : n \in 0..MaxPage}

Sizes == 0..MaxSize

(***************************************************************************)
(* log.log_to_console and the root logger.  A handler is an object with an *)
(* identity and a level; those with id 0 are installed by other code.      *)
(***************************************************************************)
PyInt(n) == [type |-> "int", val |-> n]

DEBUG == 10
INFO == 20
WARNING == 30
ERROR == 40
CRITICAL == 50

\* 'debug', 'info', 'warning', 'error', 'critical' and 'bogus'; 'ERROR'.
LowerDebug == <<100, 101, 98, 117, 103>>
LowerInfo == <<105, 110, 102, 111>>
LowerWarning == <<119, 97, 114, 110, 105, 110, 103>>
LowerError == <<101, 114, 114, 111, 114>>
LowerCritical == <<99, 114, 105, 116, 105, 99, 97, 108>>
Bogus == <<98, 111, 103, 117, 115>>
UpperError == <<69, 82, 82, 79, 82>>

\* getattr(logging, level.upper()) for the names line 100 lets through.
LevelNamed(name) ==
    IF name = LowerDebug THEN DEBUG
    ELSE IF name = LowerInfo THEN INFO
    ELSE IF name = LowerWarning THEN WARNING
    ELSE IF name = LowerError THEN ERROR
    ELSE CRITICAL

\* The names of line 100.
LevelNames == {LowerDebug, LowerInfo, LowerWarning, LowerError, LowerCritical}

\* level after lines 98-103: the argument, or what LOGLEVEL names, or INFO.
ResolveLevel(level, env) ==
    IF level # None THEN level
    ELSE IF env # None /\ env.val \in LevelNames
         THEN PyInt(LevelNamed(env.val))
         ELSE PyInt(INFO)

\* logging._checkLevel, which setLevel applies: an int is taken as it is,
\* the upper-case name of a level stands for the level, any other string is
\* refused.
CheckLevel(level) ==
    IF level.type = "int" THEN Ok(level.val)
    ELSE IF level.type = "str" /\ level.val = UpperError THEN Ok(ERROR)
    ELSE IF level.type = "str" THEN Raise("ValueError")
    ELSE Raise("TypeError")

\* logging.StreamHandler(): a new object, its level NOTSET.
StreamHandler(n) == [id |-> n, level |-> 0]

NoHandler == [id |-> -1, level |-> 0]

\* A removal that removes nothing.
RemoveHandlerNot(handlers, h) == handlers

\* Logger.removeHandler: the list without h.
RemoveHandler(handlers, h) == SelectSeq(handlers, LAMBDA x : x.id # h.id)

\* Logger.addHandler: h appended unless it is in the list.
AddHandler(handlers, h) ==
    IF \E i \in 1..Len(handlers) : handlers[i].id = h.id THEN handlers
    ELSE Append(handlers, h)

NoLogCall == [op |-> "none", level |-> None, env |-> None, exc |-> "none"]

NoConsole ==
    /\ handler = NoHandler
    /\ root_handlers = <<>>
    /\ root_level = WARNING
    /\ created = 0
    /\ log_call = NoLogCall

\* log_to_console(level) with LOGLEVEL being env in the environment.
LogToConsole(level, env) ==
    LET removed == IF handler # NoHandler
                   THEN RemoveHandler(root_handlers, handler)
                   ELSE root_handlers
        resolved == ResolveLevel(level, env)
        checked == CheckLevel(resolved)
        new == StreamHandler(created + 1)
    IN  /\ created' = created + 1
        /\ IF checked.ok
           THEN /\ handler' = [new EXCEPT !.level = checked.val]
                /\ root_handlers' = AddHandler(removed, handler')
                /\ root_level' = checked.val
                /\ log_call' = [op |-> "log_to_console", level |-> level,
                                env |-> env, exc |-> "none"]
           ELSE /\ handler' = new
                /\ root_handlers' = removed
                /\ root_level' = root_level
                /\ log_call' = [op |-> "log_to_console", level |-> level,
                                env |-> env, exc |-> checked.exc]
        /\ UNCHANGED <<routers, rbac, paging>>

\* Inputs: the level argument (absent, DEBUG, ERROR, 'ERROR', 'debug') and
\* LOGLEVEL (unset, 'debug', 'error', 'bogus').
LevelArgs ==
    {None, PyInt(DEBUG), PyInt(ERROR), PyStr(UpperError), PyStr(LowerDebug)}

LogLevelEnv == {None, PyStr(LowerDebug), PyStr(LowerError), PyStr(Bogus)}

(***************************************************************************)
(* The calls of the API, from the start of the process: Routers are        *)
(* constructed, bound and connected, and send.                             *)
(***************************************************************************)
InitRouters ==
    /\ now = StartTicks
    /\ nticks = 0
    /\ uuids = 0
    /\ constructed = [r \in Routers |-> FALSE]
    /\ identity_arg = [r \in Routers |-> None]
    /\ identity = [r \in Routers |-> <<>>]
    /\ default_recipient = [r \in Routers |-> None]
    /\ bound = [r \in Routers |-> {}]
    /\ connected = [r \in Routers |-> {}]
    /\ inbox = [r \in Routers |-> <<>>]
    /\ pc = [r \in Routers |-> "none"]
    /\ iters = [r \in Routers |-> 0]
    /\ fut = [r \in Routers |-> <<>>]
    /\ log = [r \in Routers |-> <<>>]
    /\ seen = [r \in Routers |-> NoEntry]
    /\ delivered = 0
    /\ last = NoCall

Init == InitRouters /\ NoAccessModels /\ NoPage /\ NoConsole

NextCalls ==
    \/ \E r \in Routers, i \in IdentityArgs, d \in RecipientArgs : Construct(r, i, d)
    \/ \E r \in Routers, a \in Addresses : Connect(r, a)
    \/ \E r \in Routers, a \in Addresses : Bind(r, a)
    \/ \E r \in Routers, m \in Messages, to \in RecipientArgs :
          Send(r, m, to) /\ delivered' <= MaxCallEnvelopes

SpecCalls == Init /\ [][NextCalls]_vars

(***************************************************************************)
(* The consumption loop of one Router, bound to an address that foreign    *)
(* peers send to.                                                          *)
(***************************************************************************)
InitRecv ==
    /\ NoAccessModels
    /\ NoPage
    /\ NoConsole
    /\ now = StartTicks
    /\ nticks = 0
    /\ uuids = 1
    /\ constructed = [r \in Routers |-> r = "server"]
    /\ identity_arg = [r \in Routers |-> None]
    /\ identity = [r \in Routers |->
          IF r = "server" THEN IdentityOption(None, 0) ELSE <<>>]
    /\ default_recipient = [r \in Routers |-> StoredDefault(None)]
    /\ bound = [r \in Routers |-> IF r = "server" THEN {Tcp} ELSE {}]
    /\ connected = [r \in Routers |-> {}]
    /\ inbox = [r \in Routers |-> <<>>]
    /\ pc = [r \in Routers |-> "none"]
    /\ iters = [r \in Routers |-> 0]
    /\ fut = [r \in Routers |-> <<>>]
    /\ log = [r \in Routers |-> <<>>]
    /\ seen = [r \in Routers |-> NoEntry]
    /\ delivered = 0
    /\ last = NoCall

NextRecv ==
    \/ \E d \in TickSteps : Tick(d) /\ nticks' <= MaxTicks
    \/ \E r \in Routers, f \in ForeignFrames :
          Inject(r, f) /\ delivered' <= MaxEnvelopes
    \/ \E r \in Routers : Aiter(r)
    \/ \E r \in Routers : Anext(r)
    \/ \E r \in Routers : Break(r)
    \/ \E r \in Routers : SocketRecv(r)
    \/ \E r \in Routers : Resume(r)
    \/ \E r \in Routers : Cancel(r)

SpecRecv == InitRecv /\ [][NextRecv]_vars

(***************************************************************************)
(* The demo of the module: a server with a well-known identity, a client   *)
(* with the server as its default recipient, each with a consumer task     *)
(* that iterates for ever: it neither leaves its loop nor is cancelled.    *)
(* The tasks are created before the first send is scheduled, so both are   *)
(* at their first await when it runs.  The messages sent are ones dumps    *)
(* accepts.                                                                *)
(***************************************************************************)
DemoMessages == {m \in Messages : dumps(m).ok}

InitDemo ==
    /\ NoAccessModels
    /\ NoPage
    /\ NoConsole
    /\ now = StartTicks
    /\ nticks = 0
    /\ uuids = 1
    /\ constructed = [r \in Routers |-> TRUE]
    /\ identity_arg = [r \in Routers |->
          IF r = "server" THEN PyStr(WellKnown) ELSE None]
    /\ identity = [r \in Routers |-> IdentityOption(identity_arg[r], 0)]
    /\ default_recipient = [r \in Routers |->
          IF r = "server" THEN StoredDefault(None)
          ELSE StoredDefault(PyStr(WellKnown))]
    /\ bound = [r \in Routers |-> IF r = "server" THEN {Tcp} ELSE {}]
    /\ connected = [r \in Routers |-> IF r = "client" THEN {Tcp} ELSE {}]
    /\ inbox = [r \in Routers |-> <<>>]
    /\ pc = [r \in Routers |-> "waiting"]
    /\ iters = [r \in Routers |-> 1]
    /\ fut = [r \in Routers |-> <<>>]
    /\ log = [r \in Routers |-> <<>>]
    /\ seen = [r \in Routers |-> NoEntry]
    /\ delivered = 0
    /\ last = NoCall

NextDemo ==
    \/ \E d \in TickSteps : Tick(d) /\ nticks' <= MaxDemoTicks
    \/ \E r \in Routers, m \in DemoMessages :
          \E to \in {None} \cup Senders(r) :
             Send(r, m, to) /\ delivered' <= MaxDemoEnvelopes
    \/ \E r \in Routers : Anext(r)
    \/ \E r \in Routers : SocketRecv(r)
    \/ \E r \in Routers : Resume(r)

Spec == InitDemo /\ [][NextDemo]_vars

(***************************************************************************)
(* The consumption loop left to itself: a consumer that is never           *)
(* cancelled, peers that send well-formed envelopes only.  The event loop  *)
(* runs every callback that is ready: a socket that has an envelope        *)
(* completes a pending receive, and a task whose receive is done is        *)
(* resumed.                                                                *)
(***************************************************************************)
LiveFrames ==
    {f \in ForeignFrames :
        /\ ParseInt(f[3]).ok
        /\ Utf8Decode(f[2]).ok
        /\ loads(Utf8Decode(f[2]).val).ok}

NextLive ==
    \/ \E d \in TickSteps : Tick(d) /\ nticks' <= MaxTicks
    \/ \E r \in Routers, f \in LiveFrames :
          Inject(r, f) /\ delivered' <= MaxLiveEnvelopes
    \/ \E r \in Routers : Aiter(r)
    \/ \E r \in Routers : Anext(r)
    \/ \E r \in Routers : SocketRecv(r)
    \/ \E r \in Routers : Resume(r)

SpecLive ==
    /\ InitRecv
    /\ [][NextLive]_vars
    /\ \A r \in Routers : WF_vars(SocketRecv(r)) /\ WF_vars(Resume(r))

(***************************************************************************)
(* Two Routers in use: constructed as in the demo and not yet linked, the  *)
(* server is bound and the client connected, they send with and without a  *)
(* recipient, messages dumps accepts and ones it refuses, and their        *)
(* consumers iterate.  The clock advances past the staleness window.       *)
(***************************************************************************)
UseRecipients(r) == {None, PyStr(WellKnown)} \cup Senders(r)

UseMessages == {PyList(<<1, 2>>), PySet(<<1>>)}

UseTickSteps == {StaleAfter * TicksPerSec + 1}

InitUse ==
    /\ NoAccessModels
    /\ NoPage
    /\ NoConsole
    /\ now = StartTicks
    /\ nticks = 0
    /\ uuids = 1
    /\ constructed = [r \in Routers |-> TRUE]
    /\ identity_arg = [r \in Routers |->
          IF r = "server" THEN PyStr(WellKnown) ELSE None]
    /\ identity = [r \in Routers |-> IdentityOption(identity_arg[r], 0)]
    /\ default_recipient = [r \in Routers |->
          IF r = "server" THEN StoredDefault(None)
          ELSE StoredDefault(PyStr(WellKnown))]
    /\ bound = [r \in Routers |-> {}]
    /\ connected = [r \in Routers |-> {}]
    /\ inbox = [r \in Routers |-> <<>>]
    /\ pc = [r \in Routers |-> "waiting"]
    /\ iters = [r \in Routers |-> 1]
    /\ fut = [r \in Routers |-> <<>>]
    /\ log = [r \in Routers |-> <<>>]
    /\ seen = [r \in Routers |-> NoEntry]
    /\ delivered = 0
    /\ last = NoCall

NextUse ==
    \/ \E d \in UseTickSteps : Tick(d) /\ nticks' <= MaxUseTicks
    \/ \E a \in Addresses : Connect("client", a)
    \/ \E a \in Addresses : Bind("server", a)
    \/ \E r \in Routers, m \in UseMessages :
          \E to \in UseRecipients(r) :
             Send(r, m, to) /\ delivered' <= MaxUseEnvelopes
    \/ \E r \in Routers : Anext(r)
    \/ \E r \in Routers : SocketRecv(r)
    \/ \E r \in Routers : Resume(r)

SpecUse == InitUse /\ [][NextUse]_vars

(***************************************************************************)
(* Envelopes that wait in the socket: they arrive when the process starts, *)
(* before the clock has moved and while no consumer is iterating; the      *)
(* consumer iterates later.  Among them is one with neither a timestamp    *)
(* nor a payload that can be read, and one of another peer.                *)
(***************************************************************************)
QueuedFrames ==
    ForeignFrames \cup {<<Foreign, <<123>>, Junk>>,
                        <<<<121>>, <<91, 50, 93>>, IntToStr(StartTime + 1)>>}

NextIdle ==
    \/ \E d \in TickSteps : Tick(d) /\ nticks' <= MaxTicks
    \/ \E r \in Routers, f \in QueuedFrames :
          /\ nticks = 0 /\ pc[r] = "none" /\ iters[r] = 0
          /\ Inject(r, f) /\ delivered' <= MaxIdleEnvelopes
    \/ \E r \in Routers : Aiter(r)
    \/ \E r \in Routers : Anext(r)
    \/ \E r \in Routers : SocketRecv(r)
    \/ \E r \in Routers : Resume(r)

SpecIdle == InitRecv /\ [][NextIdle]_vars

(***************************************************************************)
(* Access models: of every list of rules, the model of the list and the    *)
(* model of the list merged are constructed, and asked for the privileges  *)
(* of a role.                                                              *)
(***************************************************************************)
InitRbac ==
    /\ InitRouters
    /\ NoPage
    /\ NoConsole
    /\ items \in RuleLists
    /\ role \in Roles
    /\ patterns = [m \in Models |-> Unbuilt]
    /\ privs = [m \in Models |-> NotAsked]

NextRbac ==
    \/ \E m \in Models : NewAccessModel(m)
    \/ \E m \in Models : Privileges(m)

SpecRbac == InitRbac /\ [][NextRbac]_vars

(***************************************************************************)
(* Pages: of every page argument and number of rows, a Page is made with   *)
(* every size.                                                             *)
(***************************************************************************)
InitPage ==
    /\ InitRouters
    /\ NoAccessModels
    /\ NoConsole
    /\ request_page \in PageArgs
    /\ query_count \in 0..MaxRows
    /\ page = [exc |-> "unbuilt"]

NextPage ==
    \/ \E size \in Sizes : NewPage(size)

SpecPage == InitPage /\ [][NextPage]_vars

(***************************************************************************)
(* Logging to the console: log_to_console is called again and again, the   *)
(* root logger having a handler of other code or none when the first call  *)
(* is made.                                                                *)
(***************************************************************************)
InitConsole ==
    /\ InitRouters
    /\ NoAccessModels
    /\ NoPage
    /\ handler = NoHandler
    /\ root_handlers \in {<<>>, <<StreamHandler(0)>>}
    /\ root_level = WARNING
    /\ created = 0
    /\ log_call = NoLogCall

NextConsole ==
    \/ \E level \in LevelArgs, env \in LogLevelEnv :
          LogToConsole(level, env) /\ created' <= MaxCalls

SpecConsole == InitConsole /\ [][NextConsole]_vars

(***************************************************************************)
(* The notions the properties below are stated in.                         *)
(***************************************************************************)
\* The age limit in ticks.
Threshold == StaleAfter * TicksPerSec

\* The entry is of an envelope __anext__ resumed with.
Examined(e) == e.outcome \in {"yield", "discard", "raise"}

\* The timestamp of the envelope, and its age when __anext__ resumed with
\* it (when the task was cancelled, for a lost one): the receiver's time
\* minus the timestamp.
TsOf(e) == ParseInt(e.frames[3])

AgeTicks(e) == e.at - TsOf(e).val * TicksPerSec

\* Three frames, a timestamp int() reads and a payload of UTF-8 JSON.
WellFormed(e) ==
    /\ Len(e.frames) = 3
    /\ TsOf(e).ok
    /\ Utf8Decode(e.frames[2]).ok
    /\ loads(Utf8Decode(e.frames[2]).val).ok

\* A Router of this process sent the envelope.
RouterSent(e) == e.origin.router # "none"

IsYield(e) == e.outcome = "yield"

\* The envelope passes the filter: read by the loop, well-formed, not stale.
Accepted(e) == Examined(e) /\ WellFormed(e) /\ AgeTicks(e) <= Threshold

Ids(seq) == [i \in 1..Len(seq) |-> seq[i].id]

Increasing(ids) == \A i, j \in 1..Len(ids) : i < j => ids[i] < ids[j]

(***************************************************************************)
(* C1  Staleness law.  Of every envelope the consumption loop resumed      *)
(* with, age being the receiver's time at that moment minus the integer    *)
(* timestamp: if age > 15 s it is discarded and no entry ever yields it;   *)
(* if age <= 15 s (15 s exactly and negative ages included) and it is      *)
(* well-formed, it is yielded.                                             *)
(***************************************************************************)
C1_StalenessLaw ==
    \A r \in Routers :
        /\ (Examined(seen[r]) /\ TsOf(seen[r]).ok) =>
               /\ AgeTicks(seen[r]) > Threshold => seen[r].outcome = "discard"
               /\ (AgeTicks(seen[r]) <= Threshold /\ WellFormed(seen[r]))
                     => IsYield(seen[r])
        /\ \A i \in 1..Len(log[r]) : log[r][i].outcome = "discard" =>
               \A q \in Routers : \A j \in 1..Len(log[q]) :
                  IsYield(log[q][j]) => log[q][j].id # log[r][i].id

\* After a yield the loop discarded an envelope that was one tick of the
\* clock older than 15 s.
C1_Witness ==
    \E r \in Routers : \E i \in 1..Len(log[r]) :
        /\ IsYield(log[r][i])
        /\ seen[r].outcome = "discard"
        /\ AgeTicks(seen[r]) = Threshold + 1

(***************************************************************************)
(* C2  Default-recipient law.  send(m) without a recipient on a Router     *)
(* that has no default recipient raises TypeError('no recipient            *)
(* specified') (the AddressError of the specification), whatever m is, and *)
(* send_multipart is not called in that call.                              *)
(***************************************************************************)
C2_DefaultRecipientLaw ==
    (/\ last.op = "send"
     /\ last.args[2] = None
     /\ default_recipient[last.router] = None)
    => /\ last.exc = "TypeError: no recipient specified"
       /\ last.sent = <<>>

\* Such a call was made, with a message dumps accepts.
C2_Witness ==
    /\ last.op = "send"
    /\ last.args[2] = None
    /\ default_recipient[last.router] = None
    /\ dumps(last.args[1]).ok
    /\ last.exc = "TypeError: no recipient specified"

(***************************************************************************)
(* C3  Round-trip law.  An envelope a Router S sent and the consumption    *)
(* loop of R resumed with at an age of at most 15 s is yielded as          *)
(* (m', sender) with sender the identity of S and, when m is a list,       *)
(* m' = m; a tuple m comes back as the list of its items.                  *)
(***************************************************************************)
C3_RoundTrip ==
    \A r \in Routers :
        LET e == seen[r]
        IN  (RouterSent(e) /\ Examined(e) /\ AgeTicks(e) <= Threshold) =>
               /\ IsYield(e)
               /\ e.message[2] = PyBytes(identity[e.origin.router])
               /\ e.origin.message.type = "list" => e.message[1] = e.origin.message
               /\ e.origin.message.type = "tuple" =>
                     e.message[1] = PyList(e.origin.message.val)

\* The consumer of a Router was given a list another Router sent.
C3_Witness ==
    \E r \in Routers :
        /\ IsYield(seen[r])
        /\ RouterSent(seen[r])
        /\ seen[r].origin.message.type = "list"
        /\ seen[r].message[1] = seen[r].origin.message

\* C3 as the specification states it: m' is equal to m for every message m
\* that the JSON codec accepts.
C3_RoundTripAnyMessage ==
    \A r \in Routers :
        LET e == seen[r]
        IN  (RouterSent(e) /\ Examined(e) /\ AgeTicks(e) <= Threshold) =>
               /\ IsYield(e)
               /\ e.message[2] = PyBytes(identity[e.origin.router])
               /\ e.message[1] = e.origin.message

(***************************************************************************)
(* C4  Ordering preservation.  The loop looks at the envelopes in the      *)
(* order the transport delivered them, each once, and yields the one it    *)
(* looks at exactly when that one is accepted: so the yielded envelopes    *)
(* are the accepted ones in order of delivery, none twice, none out of     *)
(* order, none left out, whatever stale ones lie between them.             *)
(***************************************************************************)
C4_OrderingPreserved ==
    \A r \in Routers :
        /\ Increasing(Ids(log[r]))
        /\ Examined(seen[r]) => (IsYield(seen[r]) <=> Accepted(seen[r]))
        /\ log[r] # <<>> =>
              /\ log[r][Len(log[r])].id = seen[r].id
              /\ log[r][Len(log[r])].outcome = seen[r].outcome

\* Two envelopes were yielded in order with a stale one discarded between.
C4_Witness ==
    \E r \in Routers : \E i, j, k \in 1..Len(log[r]) :
        /\ i < j /\ j < k
        /\ IsYield(log[r][i])
        /\ log[r][j].outcome = "discard"
        /\ IsYield(log[r][k])
        /\ log[r][i].id < log[r][k].id

(***************************************************************************)
(* C5  Cancellation safety.  No well-formed envelope that is not stale is  *)
(* lost to a cancellation of the consumer task: none the transport handed  *)
(* to a request ends up dropped.                                           *)
(***************************************************************************)
C5_CancellationSafe ==
    \A r \in Routers :
        seen[r].outcome = "lost" =>
            ~(WellFormed(seen[r]) /\ AgeTicks(seen[r]) <= Threshold)

(***************************************************************************)
(* C6  Sequential restart.  Across the iterations over a Router the        *)
(* envelopes are handed over in the order they arrived, each once: the     *)
(* handed-over ones followed by the queued ones are all the envelopes      *)
(* delivered, in order of arrival; and nothing leaves the queue while no   *)
(* request is pending.  So a new iteration resumes with the oldest         *)
(* envelope not yet handed over.                                           *)
(***************************************************************************)
C6_SequentialRestart ==
    /\ \A r \in Routers :
          /\ Increasing(Ids(log[r]) \o Ids(fut[r]) \o Ids(inbox[r]))
          /\ pc[r] \in {"none", "body"} => fut[r] = <<>>
    /\ UNION {{(Ids(log[r]) \o Ids(fut[r]) \o Ids(inbox[r]))[i] :
                 i \in 1..(Len(log[r]) + Len(fut[r]) + Len(inbox[r]))} :
              r \in Routers} = 1..delivered

\* The first iteration yielded an envelope and a later iteration yielded
\* one that arrived after it.
C6_Witness ==
    \E r \in Routers : \E i, j \in 1..Len(log[r]) :
        /\ i < j
        /\ IsYield(log[r][i]) /\ log[r][i].iter = 1
        /\ IsYield(log[r][j]) /\ log[r][j].iter = 2

(***************************************************************************)
(* C7  No partial send on encoding failure.  send with a message dumps     *)
(* refuses, the recipient given or defaulted, raises the TypeError of      *)
(* dumps (the EncodingError of the specification) and does not call        *)
(* send_multipart.                                                         *)
(***************************************************************************)
C7_NoPartialSend ==
    (/\ last.op = "send"
     /\ ~dumps(last.args[1]).ok
     /\ last.args[2] # None \/ default_recipient[last.router] # None)
    => /\ last.exc = "TypeError: not JSON serializable"
       /\ last.sent = <<>>

\* Such a call was made with the recipient defaulted.
C7_Witness ==
    /\ last.op = "send"
    /\ ~dumps(last.args[1]).ok
    /\ last.args[2] = None
    /\ default_recipient[last.router] # None
    /\ last.exc = "TypeError: not JSON serializable"

(***************************************************************************)
(* C8  Wire envelope.  A send that succeeds has called send_multipart      *)
(* once, with three frames in this order: the recipient's identity, the    *)
(* message as UTF-8 JSON, the integer Unix time of the call in ASCII       *)
(* decimal digits.                                                         *)
(***************************************************************************)
C8_Recipient(r, recipient) ==
    IF recipient = None THEN default_recipient[r].val
    ELSE IF recipient.type = "str" THEN Utf8Encode(recipient.val)
    ELSE recipient.val

C8_WireEnvelope ==
    (last.op = "send" /\ last.exc = "none") =>
        /\ Len(last.sent) = 1
        /\ Len(last.sent[1]) = 3
        /\ last.sent[1][1] = C8_Recipient(last.router, last.args[2])
        /\ Utf8Decode(last.sent[1][2]).ok
        /\ loads(Utf8Decode(last.sent[1][2]).val) = Ok(PyList(last.args[1].val))
        /\ IsDigits(last.sent[1][3])
        /\ DigitsToNat(last.sent[1][3]) = now \div TicksPerSec

\* A send succeeded after the clock had moved on by a fraction of a second
\* or more.
C8_Witness ==
    /\ last.op = "send"
    /\ last.exc = "none"
    /\ Len(last.sent) = 1
    /\ now > StartTicks

(***************************************************************************)
(* C9  Identity invariant.  Whatever identity a Router is constructed       *)
(* with, none or any string, the empty one included, the construction      *)
(* raises nothing and the identity of the Router is not empty.             *)
(***************************************************************************)
C9_IdentityNeverEmpty ==
    /\ last.op = "__init__" => last.exc = "none"
    /\ \A r \in Routers : constructed[r] => identity[r] # <<>>

(***************************************************************************)
(* C10  Identity stability.  A Router constructed with an explicit         *)
(* identity has that identity, UTF-8 encoded, on its socket; two Routers   *)
(* constructed without one have different identities.                      *)
(***************************************************************************)
C10_IdentityStability ==
    /\ \A r \in Routers :
          (constructed[r] /\ identity_arg[r] # None) =>
              identity[r] = Utf8Encode(identity_arg[r].val)
    /\ \A r, q \in Routers :
          (/\ r # q
           /\ constructed[r] /\ constructed[q]
           /\ identity_arg[r] = None /\ identity_arg[q] = None)
          => identity[r] # identity[q]

\* Two Routers were constructed without an identity.
C10_Witness ==
    \A r \in Routers : constructed[r] /\ identity_arg[r] = None
(***************************************************************************)
(* C11  Recipient resolution.  The address frame send hands to the         *)
(* transport is the UTF-8 encoding of the recipient given as text, the     *)
(* recipient given as bytes unchanged, and the stored default when none is *)
(* given, whatever the default is when one is given; the default stored by *)
(* the constructor is the UTF-8 encoding of a text argument, a bytes       *)
(* argument unchanged, None for none.  So a text recipient and its UTF-8   *)
(* bytes give the same frame.                                              *)
(***************************************************************************)
C11_RecipientResolution ==
    /\ (last.op = "send" /\ last.sent # <<>>) =>
          LET to == last.args[2]
              frame == last.sent[1][1]
          IN  /\ to.type = "str" => frame = Utf8Encode(to.val)
              /\ to.type = "bytes" => frame = to.val
              /\ to = None => frame = default_recipient[last.router].val
    /\ (last.op = "__init__" /\ last.exc = "none") =>
          LET given == last.args[2]
              stored == default_recipient[last.router]
          IN  /\ given = None => stored = None
              /\ given.type = "str" => stored = PyBytes(Utf8Encode(given.val))
              /\ given.type = "bytes" => stored = given

\* A Router with a default recipient sent to a recipient given as text,
\* whose encoding is neither its code points nor the default.
C11_Witness ==
    /\ last.op = "send"
    /\ last.sent # <<>>
    /\ last.args[2].type = "str"
    /\ default_recipient[last.router] # None
    /\ last.sent[1][1] # default_recipient[last.router].val
    /\ last.sent[1][1] # last.args[2].val
(***************************************************************************)
(* C12  No internal retry.  A send that reaches the transport calls        *)
(* send_multipart exactly once; when the transport fails the call, the     *)
(* failure (ZMQError, the TransportError of the specification) is raised   *)
(* to the caller of send; when it succeeds, send raises nothing and        *)
(* returns None.                                                           *)
(***************************************************************************)
C12_TransportFailed == last.dropped # "none" \/ last.exc = "ZMQError"

C12_NoInternalRetry ==
    (last.op = "send" /\ last.sent # <<>>) =>
        /\ Len(last.sent) = 1
        /\ C12_TransportFailed => last.exc = "ZMQError"
        /\ ~C12_TransportFailed => (last.exc = "none" /\ last.ret = "None")
(***************************************************************************)
(* C13  connect and bind.  Each call of connect(address) or bind(address)  *)
(* calls the socket's method of the same name once, with that address.     *)
(* When the socket accepts it, the address is among those the Router is    *)
(* connected or bound to, nothing is raised and the Router itself is       *)
(* returned; when the socket refuses, its ZMQError is raised and nothing   *)
(* is returned.                                                            *)
(***************************************************************************)
C13_Endpoints(r) == IF last.op = "connect" THEN connected[r] ELSE bound[r]

C13_ConnectBind ==
    (last.op \in {"connect", "bind"}) =>
        /\ last.passed = last.args
        /\ Len(last.args) = 1
        /\ last.exc \in {"none", "ZMQError"}
        /\ last.exc = "none" =>
              /\ last.ret = last.router
              /\ last.args[1] \in C13_Endpoints(last.router)
        /\ last.exc = "ZMQError" => last.ret = "none"

\* A Router was bound and returned by bind.
C13_Witness ==
    /\ last.op = "bind"
    /\ last.exc = "none"
    /\ last.ret = last.router
    /\ Tcp \in bound[last.router]
(***************************************************************************)
(* C14  The sequence never ends on its own.  A request that resumes with   *)
(* a well-formed envelope raises nothing (no end of the sequence either):  *)
(* it goes back to waiting exactly when the envelope is stale, and         *)
(* otherwise returns the pair.  And a pending request with envelopes       *)
(* queued goes on taking them until it yields one, or has discarded them   *)
(* all and is waiting: so a well-formed envelope that is not stale when    *)
(* the request comes to it is eventually yielded, however many stale ones  *)
(* precede it.                                                             *)
(***************************************************************************)
C14_Pending(r) == pc[r] \in {"waiting", "resuming"}

C14_NeverEnds ==
    /\ [][\A r \in Routers :
            (pc[r] = "resuming" /\ pc'[r] # "resuming") =>
               /\ seen'[r].exc = "none"
               /\ pc'[r] \in {"waiting", "body"}
               /\ pc'[r] = "waiting" <=> AgeTicks(seen'[r]) > Threshold
               /\ pc'[r] = "waiting" <=> seen'[r].outcome = "discard"
               /\ pc'[r] = "body" <=> IsYield(seen'[r])]_vars
    /\ \A r \in Routers :
          (C14_Pending(r) /\ fut[r] \o inbox[r] # <<>>)
             ~> \/ pc[r] = "body" /\ IsYield(seen[r])
                \/ pc[r] = "waiting" /\ inbox[r] = <<>>

\* A request discarded a stale envelope and then yielded the next one.
C14_Witness ==
    \E r \in Routers : \E i \in 1..Len(log[r]) :
        /\ i + 1 = Len(log[r])
        /\ log[r][i].outcome = "discard"
        /\ IsYield(seen[r])
        /\ pc[r] = "body"
(***************************************************************************)
(* C15  End-to-end scenario.  The server is bound with a chosen identity   *)
(* and the client is connected to it with that identity as its default     *)
(* recipient.  A message the client sends without a recipient is queued    *)
(* at the server, and the server consuming it within the staleness window  *)
(* is given the message and the identity of the client; a reply the server *)
(* sends to that sender is queued at the client, and the client consuming  *)
(* it within the window is given the reply and the server's identity as    *)
(* bytes.                                                                  *)
(***************************************************************************)
C15_Queued(from, to) ==
    /\ inbox[to] # <<>>
    /\ inbox[to][Len(inbox[to])].origin =
          [router |-> from, message |-> last.args[1]]

C15_Given(r, from) ==
    LET e == seen[r]
    IN  (/\ Examined(e)
         /\ e.origin.router = from
         /\ e.origin.message.type = "list"
         /\ AgeTicks(e) <= Threshold) =>
            /\ IsYield(e)
            /\ e.message = <<e.origin.message, PyBytes(identity[from])>>

C15_EndToEnd ==
    /\ identity["server"] = Utf8Encode(WellKnown)
    /\ (/\ last.op = "send" /\ last.router = "client"
         /\ last.args[2] = None /\ last.dropped = "none") =>
            /\ last.exc = "none"
            /\ C15_Queued("client", "server")
    /\ C15_Given("server", "client")
    /\ (/\ last.op = "send" /\ last.router = "server"
         /\ last.args[2] \in Senders("server")
         /\ seen["server"].origin.router = "client"
         /\ last.dropped = "none") =>
            /\ last.exc = "none"
            /\ C15_Queued("server", "client")
    /\ C15_Given("client", "server")

\* The server was given a message of the client, and the client was given
\* the reply the server sent to the sender it was given.
C15_Witness ==
    /\ IsYield(seen["server"])
    /\ seen["server"].origin.router = "client"
    /\ IsYield(seen["client"])
    /\ seen["client"].origin.router = "server"
    /\ seen["client"].id > seen["server"].id
    /\ seen["client"].message =
          <<seen["client"].origin.message, PyBytes(Utf8Encode(WellKnown))>>
    /\ seen["client"].frames[1] = identity["server"]
    /\ seen["server"].message[2] = PyBytes(identity["client"])
(***************************************************************************)
(* C16  Immutability.  No step of a constructed Router changes its         *)
(* identity or its stored default recipient: not connect, not bind, not a  *)
(* send with or without a recipient, whether it succeeds or fails, not a   *)
(* step of the consumption loop, a discard included.  So a send without    *)
(* recipient addresses the default of the construction, whatever explicit  *)
(* recipients earlier sends had.                                           *)
(***************************************************************************)
C16_Immutable ==
    [][\A r \in Routers :
          constructed[r] =>
             /\ identity'[r] = identity[r]
             /\ default_recipient'[r] = default_recipient[r]
             /\ (/\ last'.op = "send" /\ last'.router = r
                  /\ last'.args[2] = None /\ last'.sent # <<>>) =>
                    /\ default_recipient[r] # None
                    /\ last'.sent[1][1] = default_recipient[r].val]_vars

\* The client, after a discard and a reply to a sender it was given, sent
\* without recipient: the message went to the default of its construction.
C16_Witness ==
    /\ last.op = "send" /\ last.router = "client"
    /\ last.args[2] = None /\ last.sent # <<>>
    /\ last.sent[1][1] = Utf8Encode(WellKnown)
    /\ \E i \in 1..Len(log["server"]) : log["server"][i].outcome = "discard"
    /\ bound["server"] # {} /\ connected["client"] # {}
    /\ delivered >= 1
(***************************************************************************)
(* C17  AccessModel: a privilege mentioned in several items is as if       *)
(* specified once with all its patterns concatenated in order.  The model  *)
(* of the rules as given and the model of the rules merged are both        *)
(* constructed or both refused with the same error, and for every role     *)
(* privileges(role) is the same set for both, items of other privileges    *)
(* between the items merged or not.                                        *)
(***************************************************************************)
C17_MergeEquivalence ==
    /\ (patterns["split"] # Unbuilt /\ patterns["merged"] # Unbuilt) =>
          /\ patterns["split"].ok = patterns["merged"].ok
          /\ patterns["split"].exc = patterns["merged"].exc
    /\ (privs["split"].asked /\ privs["merged"].asked) =>
          privs["split"].val = privs["merged"].val

\* '+*' and '-a' of one privilege in two items with an item of another
\* privilege between them, asked for the role 'a' that both match.
C17_Witness ==
    /\ privs["split"].asked /\ privs["merged"].asked
    /\ Len(items) = 3
    /\ items[1][1] = items[3][1] /\ items[2][1] # items[1][1]
    /\ items[1][2] = << <<43, 42>> >>
    /\ items[2][2] = << <<43, 42>> >>
    /\ items[3][2] = << <<45, 97>> >>
    /\ role = <<97>>
    /\ privs["split"].val = {items[2][1]}
    /\ Len(patterns["merged"].val) = 3
    /\ patterns["merged"].val # patterns["split"].val
(***************************************************************************)
(* C18  No single bad or stale message ends the consumption sequence.  A   *)
(* request that resumes with an envelope, be it stale, with a timestamp    *)
(* int() cannot read or with a payload that is no JSON, stays in the loop: *)
(* it goes back to waiting for the next envelope or returns a pair, and    *)
(* the iteration goes on.                                                  *)
(***************************************************************************)
C18_BadMessageNeverEnds ==
    [][\A r \in Routers :
          (/\ pc[r] = "resuming"
           /\ log'[r] # log[r]
           /\ Examined(seen'[r])) =>
              pc'[r] \in {"waiting", "body"}]_vars
(***************************************************************************)
(* C19  Malformed input.  A request that resumes with an envelope whose    *)
(* timestamp int() cannot read, or which is not stale and whose payload is *)
(* not UTF-8 JSON, raises the parse error to the consumer: the request     *)
(* ends with ValueError, UnicodeDecodeError or JSONDecodeError and the     *)
(* task is out of the loop.  The envelope is gone from the socket, no      *)
(* pair is made of it, and no later request is handed it again.            *)
(***************************************************************************)
C19_Malformed(e) ==
    \/ ~TsOf(e).ok
    \/ AgeTicks(e) <= Threshold /\ ~WellFormed(e)

C19_MalformedRaises ==
    /\ [][\A r \in Routers :
            (/\ pc[r] = "resuming"
             /\ log'[r] # log[r]
             /\ Examined(seen'[r])
             /\ C19_Malformed(seen'[r])) =>
                /\ seen'[r].outcome = "raise"
                /\ seen'[r].exc \in
                      {"ValueError", "UnicodeDecodeError", "JSONDecodeError"}
                /\ seen'[r].message = None
                /\ pc'[r] = "none"
                /\ fut'[r] = <<>>
                /\ inbox'[r] = inbox[r]]_vars
    /\ [](\A r \in Routers : \A i \in 1..Len(log[r]) :
            log[r][i].outcome = "raise" =>
               /\ \A j \in 1..Len(log[r]) : j # i => log[r][j].id # log[r][i].id
               /\ \A j \in 1..Len(fut[r]) : fut[r][j].id # log[r][i].id
               /\ \A j \in 1..Len(inbox[r]) : inbox[r][j].id # log[r][i].id)

\* A request raised on a malformed envelope that was not stale, and a new
\* iteration was handed the envelope after it.
C19_Witness ==
    \E r \in Routers : \E i \in 1..Len(log[r]) :
        /\ i + 1 = Len(log[r])
        /\ log[r][i].outcome = "raise"
        /\ log[r][i].iter = 1
        /\ log[r][i + 1].iter = 2
        /\ IsYield(seen[r])
        /\ seen[r].id = log[r][i].id + 1
(***************************************************************************)
(* C20  Send does not suspend and does not disturb the receive pump.  A    *)
(* send is one step that ends by returning or raising, and it can be made  *)
(* while the Router's request is pending.  It leaves the consumer task,    *)
(* the receive future, what was handed over and the envelopes queued at    *)
(* the sender as they are, and only adds to the queue of a peer; so a      *)
(* pending request with an envelope queued can still be completed with     *)
(* it.  The task is suspended nowhere but at the receive.                  *)
(***************************************************************************)
C20_IsPrefix(p, q) == Len(p) <= Len(q) /\ SubSeq(q, 1, Len(p)) = p

C20_SendDoesNotSuspend ==
    /\ [][last'.op = "send" =>
            /\ last'.ret = "None" \/ last'.exc # "none"
            /\ pc' = pc /\ fut' = fut /\ log' = log /\ seen' = seen
            /\ inbox'[last'.router] = inbox[last'.router]
            /\ \A q \in Routers : C20_IsPrefix(inbox[q], inbox'[q])]_vars
    /\ [](\A r \in Routers :
            /\ ENABLED Send(r, PyList(<<1, 2>>), None)
            /\ (pc[r] = "waiting" /\ inbox[r] # <<>>) => ENABLED SocketRecv(r)
            /\ fut[r] # <<>> => pc[r] = "resuming")

\* A Router with a request pending and an envelope queued sent a message
\* that was delivered to its peer.
C20_Witness ==
    /\ last.op = "send" /\ last.exc = "none" /\ last.dropped = "none"
    /\ pc[last.router] = "waiting"
    /\ inbox[last.router] # <<>>
    /\ \E q \in Routers :
          /\ q # last.router
          /\ inbox[q] # <<>>
          /\ inbox[q][Len(inbox[q])].origin.router = last.router
          /\ inbox[q][Len(inbox[q])].id = delivered
(***************************************************************************)
(* C21  Staleness is judged at consumption time, not at arrival.  The age  *)
(* that decides is the receiver's clock when the request resumes with the  *)
(* envelope minus the timestamp: an envelope that was not stale when it    *)
(* reached the socket (here: when the process started, no consumer         *)
(* iterating) is discarded when that age exceeds 15 s by the time it is    *)
(* read, and not otherwise.                                                *)
(***************************************************************************)
C21_FreshOnArrival(e) == StartTicks - TsOf(e).val * TicksPerSec <= Threshold

C21_JudgedWhenRead ==
    \A r \in Routers :
        LET e == seen[r]
        IN  (Examined(e) /\ TsOf(e).ok /\ C21_FreshOnArrival(e)) =>
               /\ e.outcome = "discard" <=> AgeTicks(e) > Threshold
               /\ (AgeTicks(e) <= Threshold /\ WellFormed(e)) => IsYield(e)

\* An envelope that was fresh on arrival waited in the socket and was
\* discarded when the consumer came to it.
C21_Witness ==
    \E r \in Routers :
        /\ seen[r].outcome = "discard"
        /\ C21_FreshOnArrival(seen[r])
        /\ seen[r].at > StartTicks + Threshold
(***************************************************************************)
(* C22  Check order on receive.  The timestamp is parsed and the staleness *)
(* test applied before the payload is decoded.  An envelope whose          *)
(* timestamp int() cannot read raises ValueError, its payload valid or     *)
(* not; a stale envelope is discarded without an exception, its payload    *)
(* valid or not; only an envelope that is not stale has its payload        *)
(* decoded, and raises the decoding error if that fails.                   *)
(***************************************************************************)
C22_PayloadValid(e) ==
    /\ Utf8Decode(e.frames[2]).ok
    /\ loads(Utf8Decode(e.frames[2]).val).ok

C22_CheckOrder ==
    \A r \in Routers :
        LET e == seen[r]
        IN  Examined(e) =>
               /\ ~TsOf(e).ok => e.outcome = "raise" /\ e.exc = "ValueError"
               /\ (TsOf(e).ok /\ AgeTicks(e) > Threshold) =>
                     e.outcome = "discard" /\ e.exc = "none"
               /\ (TsOf(e).ok /\ AgeTicks(e) <= Threshold /\ ~C22_PayloadValid(e)) =>
                     /\ e.outcome = "raise"
                     /\ e.exc \in {"UnicodeDecodeError", "JSONDecodeError"}

\* A request raised in the first iteration, and the second discarded a
\* stale envelope whose payload is no JSON.
C22_Witness ==
    \E r \in Routers :
        /\ Len(log[r]) = 2
        /\ log[r][1].outcome = "raise"
        /\ seen[r].outcome = "discard"
        /\ ~C22_PayloadValid(seen[r])
(***************************************************************************)
(* C23  Envelope integrity on yield.  The pair a request returns is made   *)
(* of the envelope the request resumed with and of no other: the sender is *)
(* its first frame, the message its second frame decoded; nothing of an    *)
(* envelope discarded before it is in the pair.                            *)
(***************************************************************************)
C23_PairOf(env) ==
    <<loads(Utf8Decode(env.frames[2]).val).val, PyBytes(env.frames[1])>>

C23_EnvelopeIntegrity ==
    [][\A r \in Routers :
          (pc[r] = "resuming" /\ log'[r] # log[r] /\ IsYield(seen'[r])) =>
             /\ seen'[r].id = fut[r][1].id
             /\ seen'[r].frames = fut[r][1].frames
             /\ seen'[r].message = C23_PairOf(fut[r][1])]_vars

\* A stale envelope of one peer was discarded and the request returned the
\* next envelope, of another peer and with another payload.
C23_Witness ==
    \E r \in Routers :
        /\ Len(log[r]) = 2
        /\ log[r][1].outcome = "discard"
        /\ log[r][1].iter = log[r][2].iter
        /\ IsYield(seen[r])
        /\ seen[r].frames[1] = <<121>>
        /\ seen[r].message = <<PyList(<<2>>), PyBytes(<<121>>)>>
(***************************************************************************)
(* C24  Page navigation bounds.  Every Page constructed (size > 0, page    *)
(* number n >= 1 requested, any number of rows) has first = 1,             *)
(* last = max(1, ceil(items_total / size)) and                             *)
(* first <= prev <= number <= next <= last, with prev = number on the      *)
(* first page only and next = number on the last page only; a page         *)
(* argument that is no integer or is below 1 raises InvalidUsage and no    *)
(* Page is constructed.                                                    *)
(***************************************************************************)
C24_Requested == IF request_page = None THEN Ok(1) ELSE ParseInt(request_page.val)

C24_Constructed == page.exc = "none"

C24_NavigationBounds ==
    /\ C24_Constructed =>
          /\ page.size > 0 /\ page.number >= 1
          /\ page.number = C24_Requested.val
          /\ page.first = 1
          /\ page.last = Max(1, Ceil(page.items_total, page.size))
          /\ page.first <= page.prev /\ page.prev <= page.number
          /\ page.number <= page.next /\ page.next <= page.last
          /\ page.prev = page.number <=> page.number = page.first
          /\ page.next = page.number <=> page.number = page.last
    /\ (page.exc \notin {"unbuilt", "AssertionError"}
         /\ (~C24_Requested.ok \/ C24_Requested.val < 1)) =>
          page.exc \in {"InvalidUsage: wrong type", "InvalidUsage: < 1"}

(***************************************************************************)
(* C25  log_to_console handler uniqueness.  The root logger never has more *)
(* than one handler of this module.  After a call that returned it has     *)
(* exactly one, the one the module-level `handler` names, made by that     *)
(* call, and the level of the root logger and of the handler is the level  *)
(* of the call: the one given, or the one LOGLEVEL names, or INFO.  (A     *)
(* call with something that is no level raises ValueError and leaves none  *)
(* installed.)  Handlers of other code stay.                               *)
(***************************************************************************)
C25_Ours == SelectSeq(root_handlers, LAMBDA h : h.id >= 1)

C25_Level ==
    IF log_call.level = PyInt(DEBUG) THEN DEBUG
    ELSE IF log_call.level \in {PyInt(ERROR), PyStr(UpperError)} THEN ERROR
    ELSE IF log_call.level # None THEN -1
    ELSE IF log_call.env = PyStr(LowerDebug) THEN DEBUG
    ELSE IF log_call.env = PyStr(LowerError) THEN ERROR
    ELSE INFO

====
